---- MODULE Spec2Model ----
(***************************************************************************)
(* A model of the AoD weekly newsletter generator: the Streamlit page      *)
(* (app.py) that validates an uploaded cookie file and starts a report     *)
(* run, and the report pipeline (report.py): CanvasSession, the four       *)
(* extractors, WeeklyReportGenerator and the hand-off to the PDF renderer. *)
(*                                                                         *)
(* Conventions                                                             *)
(*  - time stamps are counted in half seconds, so that int() of a cookie's *)
(*    expirationDate (truncation to whole seconds) is not the identity;    *)
(*  - money is counted in whole dollars;                                   *)
(*  - the time stamps of the shipped listing are counted in hours, and the *)
(*    average of measurement_to_shipped (a float of days) in minutes;      *)
(*  - a Python exception is a record [type, msg, excerpt]; excerpt is the  *)
(*    length of the body prefix the message carries (0 when none).         *)
(***************************************************************************)
EXTENDS Integers, Sequences, FiniteSets, TLC

VARIABLES
    disk,          \* canvas_cookies.json in the working directory
    uploaded,      \* the file held by the st.file_uploader widget
    clock,         \* wall clock, in half seconds
    valid_cookies, \* app.py: valid_cookies of the last script run
    validatedAt,   \* clock value read by that script run's datetime.now()
    pc,            \* position of the script inside the generate handler
    jar,           \* CanvasSession.session.cookies (name -> value pairs)
    constructed,   \* collaborators WeeklyReportGenerator.__init__ has built
    run,           \* locals of generate_report: today, days_back, ranges
    calls,         \* extractor calls issued by this run, in order
    requests,      \* HTTP requests issued on the session by this run
    sessionCalls,  \* number of requests.Session.get/post invocations
    serverCtx,     \* portal side: dates of the last conversion search form
    data,          \* the MetricsRecord under assembly
    rendered,      \* arguments create_report was invoked with
    pdf,           \* a PDF file has been written by this run
    error,         \* the exception that ended this run
    page,          \* SpecRevenue: the <table> elements of the revenue page
    parsed,        \* SpecRevenue: what _parse_revenue_table did with it
    body,          \* SpecConversion: the export response body
    conv,          \* SpecConversion: what download_report did with it
    input,         \* the arguments of a function exercised on its own
    output         \* what that function did with them

vars == <<disk, uploaded, clock, valid_cookies, validatedAt, pc, jar,
          constructed, run, calls, requests, sessionCalls, serverCtx, data,
          rendered, pdf, error, page, parsed, body, conv, input, output>>

appVars == <<disk, uploaded, clock, valid_cookies, validatedAt, pc, jar,
             constructed, run, calls, requests, sessionCalls, serverCtx,
             data, rendered, pdf, error>>

\* ------------------------------------------------------------------ bounds
MaxClock == 3
MaxRows == 5
MaxLines == 2
MaxJobs == 2
MaxShipped == 2
MaxShifts == 2

\* ------------------------------------------------------- general helpers
Min(a, b) == IF a < b THEN a ELSE b

SeqsUpTo(S, n) == UNION {[1..k -> S] : k \in 0..n}

RECURSIVE SumSeq(_)
SumSeq(s) == IF s = <<>> THEN 0 ELSE Head(s) + SumSeq(Tail(s))

NoError == [type |-> "none", msg |-> "", excerpt |-> 0]

Exc(type, msg) == [type |-> type, msg |-> msg, excerpt |-> 0]

\* ------------------------------------------------------------- DateRange
IsLeap(y) == (y % 4 = 0 /\ y % 100 # 0) \/ y % 400 = 0

DaysInMonth(y, m) ==
    IF m = 2 THEN (IF IsLeap(y) THEN 29 ELSE 28)
    ELSE IF m \in {4, 6, 9, 11} THEN 30 ELSE 31

Date(y, m, d) == [y |-> y, m |-> m, d |-> d]

PrevDay(dt) ==
    IF dt.d > 1 THEN Date(dt.y, dt.m, dt.d - 1)
    ELSE IF dt.m > 1 THEN Date(dt.y, dt.m - 1, DaysInMonth(dt.y, dt.m - 1))
    ELSE Date(dt.y - 1, 12, 31)

\* today - timedelta(days=n)
RECURSIVE MinusDays(_, _)
MinusDays(dt, n) == IF n = 0 THEN dt ELSE MinusDays(PrevDay(dt), n - 1)

\* date.replace(year=y): ValueError when the day does not exist in year y
ReplaceYearRaises(dt, y) == dt.d > DaysInMonth(y, dt.m)

ReplaceYear(dt, y) == [dt EXCEPT !.y = y]

DateRange(s, e) == [start |-> s, end |-> e]

NoDate == Date(0, 0, 0)

NoRange == DateRange(NoDate, NoDate)

get_last_year_raises(r) ==
    \/ ReplaceYearRaises(r.start, r.start.y - 1)
    \/ ReplaceYearRaises(r.end, r.end.y - 1)

KeepYear(r) == r

get_last_year(r) ==
    DateRange(ReplaceYear(r.start, r.start.y - 1),
              ReplaceYear(r.end, r.end.y - 1))

\* ------------------------------------------------------------ cookie files
Cookie(n, v, hasExp, exp) ==
    [name |-> n, value |-> v, hasExp |-> hasExp, expirationDate |-> exp]

\* a file is absent, not JSON, or a JSON list of cookie records
File(kind, cookies) == [kind |-> kind, cookies |-> cookies]

Absent == File("absent", <<>>)

Garbage == File("garbage", <<>>)

Json(cookies) == File("json", cookies)

StaleFile == Json(<<Cookie("PHPSESSID", "a", TRUE, 2)>>)

FreshFile == Json(<<Cookie("PHPSESSID", "b", TRUE, 5),
                    Cookie("username", "u", FALSE, 0)>>)

UploadFiles ==
    { Garbage,
      Json(<<>>),
      Json(<<Cookie("PHPSESSID", "a", FALSE, 0)>>),
      StaleFile,
      Json(<<Cookie("PHPSESSID", "c", TRUE, 3)>>),
      FreshFile,
      Json(<<Cookie("PHPSESSID", "a", TRUE, 2),
             Cookie("username", "u", TRUE, 5)>>) }

DiskFiles == {Absent, Garbage, StaleFile, FreshFile}

NoUpload == File("none", <<>>)

\* int(x) of a non-negative time stamp given in half seconds
IntSeconds(x) == x - (x % 2)

SetMax(S) == CHOOSE x \in S : \A z \in S : z <= x

\* app.py get_expiration_date: [ok, at]; ok = FALSE stands for None
get_expiration_date(f) ==
    IF f.kind # "json" THEN [ok |-> FALSE, at |-> 0]
    ELSE LET expiration_timestamps ==
                 {IntSeconds(f.cookies[i].expirationDate) :
                      i \in {j \in DOMAIN f.cookies : f.cookies[j].hasExp}}
         IN IF expiration_timestamps = {} THEN [ok |-> FALSE, at |-> 0]
            ELSE [ok |-> TRUE, at |-> SetMax(expiration_timestamps)]

\* app.py lines 196-264: the value valid_cookies has after validation at now
ValidateAlwaysValid(f, now) == f.kind # "none"

Validate(f, now) ==
    /\ f.kind # "none"
    /\ get_expiration_date(f).ok
    /\ ~(get_expiration_date(f).at < now)

\* the jar session.cookies.set builds: later entries of a name replace earlier
JarOf(cookies) ==
    {<<cookies[i].name, cookies[i].value>> :
        i \in {j \in DOMAIN cookies :
                 \A k \in DOMAIN cookies :
                     k > j => cookies[k].name # cookies[j].name}}

\* CanvasSession._create_session: reads COOKIE_PATH, never the upload
CreateSessionFromUpload(d, u) ==
    [error |-> NoError, jar |-> JarOf(u.cookies)]

CreateSession(d, u) ==
    IF d.kind = "absent"
    THEN [error |-> Exc("FileNotFoundError", "Cookie file not found"),
          jar |-> {}]
    ELSE IF d.kind = "garbage"
    THEN [error |-> Exc("JSONDecodeError", ""), jar |-> {}]
    ELSE [error |-> NoError, jar |-> JarOf(d.cookies)]

\* --------------------------------------------------------- CanvasSession
\* what the portal (or the network) answers to one request
Outcome(transport, status) == [transport |-> transport, status |-> status]

Statuses == {200, 404, 500}

Outcomes == {Outcome(TRUE, 0)} \cup {Outcome(FALSE, s) : s \in Statuses}

\* requests.Response.raise_for_status: HTTPError for 4xx and 5xx
raise_for_status(status) == status >= 400 /\ status < 600

\* CanvasSession.get / CanvasSession.post: one session call, then
\* raise_for_status; attempts counts the session calls made
RequestWithRetry(o) ==
    [attempts |-> IF o.transport \/ raise_for_status(o.status) THEN 2 ELSE 1,
     raised |-> o.transport \/ raise_for_status(o.status),
     error |-> IF o.transport THEN Exc("ConnectionError", "")
               ELSE IF raise_for_status(o.status) THEN Exc("HTTPError", "")
               ELSE NoError]

Request(o) ==
    [attempts |-> 1,
     raised |-> o.transport \/ raise_for_status(o.status),
     error |-> IF o.transport THEN Exc("ConnectionError", "")
               ELSE IF raise_for_status(o.status) THEN Exc("HTTPError", "")
               ELSE NoError]

PostWithoutRaise(o) == [Request(o) EXCEPT !.raised = FALSE, !.error = NoError]

get(o) == Request(o)

post(o) == Request(o)

\* ---------------------------------------------------------- NetworkRevenue
\* a cell is the text of a <td>, a sequence of characters
Digits == {"0", "1", "2", "3", "4", "5", "6", "7", "8", "9"}

DigitVal(c) ==
    CASE c = "0" -> 0 [] c = "1" -> 1 [] c = "2" -> 2 [] c = "3" -> 3
      [] c = "4" -> 4 [] c = "5" -> 5 [] c = "6" -> 6 [] c = "7" -> 7
      [] c = "8" -> 8 [] c = "9" -> 9

\* str.strip()
RECURSIVE LStrip(_)
LStrip(s) == IF s # <<>> /\ Head(s) = " " THEN LStrip(Tail(s)) ELSE s

RECURSIVE RStrip(_)
RStrip(s) ==
    IF s # <<>> /\ s[Len(s)] = " " THEN RStrip(SubSeq(s, 1, Len(s) - 1)) ELSE s

Strip(s) == RStrip(LStrip(s))

\* str.replace(c, "")
Remove(s, c) == SelectSeq(s, LAMBDA x : x # c)

\* str.lower() on the letters the tables use
LowerChar(c) ==
    CASE c = "T" -> "t" [] c = "O" -> "o" [] c = "A" -> "a" [] c = "L" -> "l"
      [] c = "B" -> "b" [] c = "C" -> "c" [] c = "D" -> "d"
      [] OTHER -> c

Lower(s) == [i \in DOMAIN s |-> LowerChar(s[i])]

\* int(text) / float(text) of an unsigned whole number: fails on anything else
IsNumber(s) == s # <<>> /\ \A i \in DOMAIN s : s[i] \in Digits

RECURSIVE NumberOf(_)
NumberOf(s) ==
    IF s = <<>> THEN 0
    ELSE 10 * NumberOf(SubSeq(s, 1, Len(s) - 1)) + DigitVal(s[Len(s)])

CleanRevenue(revenue) == Remove(Remove(revenue, "$"), ",")

TotalName == <<"t", "o", "t", "a", "l">>

IsTotalExact(name) == name = <<"T", "o", "t", "a", "l">>

IsTotal(name) == Lower(name) = TotalName

NoTotal == [Rank |-> <<>>, Location |-> <<>>, Revenue |-> 0]

\* lines 360-384: the loop over the <tr> elements, one row at a time
RECURSIVE ParseRows(_, _)
ParseRows(trs, acc) ==
    IF trs = <<>> \/ acc.error.type # "none" THEN acc
    ELSE LET cols == Head(trs)
             rank == Strip(cols[1])
             name == Strip(cols[2])
             revenue == Strip(cols[3])
         IN IF Len(cols) # 3 THEN ParseRows(Tail(trs), acc)
            ELSE IF ~IsNumber(CleanRevenue(revenue))
            THEN [acc EXCEPT !.error = Exc("ValueError", "could not convert string to float")]
            ELSE IF IsTotal(name)
            THEN ParseRows(Tail(trs),
                     [acc EXCEPT !.found = TRUE,
                                 !.total_row = [Rank |-> rank, Location |-> name,
                                                Revenue |-> NumberOf(CleanRevenue(revenue))]])
            ELSE IF ~IsNumber(rank)
            THEN [acc EXCEPT !.error = Exc("ValueError", "invalid literal for int()")]
            ELSE ParseRows(Tail(trs),
                     [acc EXCEPT !.rows = Append(@,
                                     [Rank |-> NumberOf(rank), Location |-> name,
                                      Revenue |-> NumberOf(CleanRevenue(revenue))])])

\* DataFrame.nlargest(n, "Revenue"): descending, ties in order of appearance
RECURSIVE nlargest(_, _)
nlargest(n, rows) ==
    IF n = 0 \/ rows = <<>> THEN <<>>
    ELSE LET best == CHOOSE i \in DOMAIN rows :
                         /\ \A j \in DOMAIN rows : rows[j].Revenue <= rows[i].Revenue
                         /\ \A j \in 1..(i - 1) : rows[j].Revenue < rows[i].Revenue
             rest == [k \in 1..(Len(rows) - 1) |->
                         IF k < best THEN rows[k] ELSE rows[k + 1]]
         IN <<rows[best]>> \o nlargest(n - 1, rest)

TopN == 3

\* NetworkRevenue._parse_revenue_table on a page (its <table> elements)
ParseLastTable(html) ==
    ParseRows(html[Len(html)], [rows |-> <<>>, found |-> FALSE,
                                total_row |-> NoTotal, error |-> NoError])

\* the first rows of the table instead of the largest
FirstRows(rows) == SubSeq(rows, 1, Min(TopN, Len(rows)))

TopRows(rows) == nlargest(TopN, rows)

NoRevenue(err) ==
    [error |-> err, df_total |-> NoTotal, df_top3 |-> <<>>, df_all |-> <<>>]

_parse_revenue_table(html) ==
    IF html = <<>> THEN NoRevenue(Exc("IndexError", "list index out of range"))
    ELSE LET acc == ParseLastTable(html)
         IN IF acc.error.type # "none" THEN NoRevenue(acc.error)
            ELSE IF ~acc.found
            THEN NoRevenue(Exc("ValueError", "Could not find total row in revenue table."))
            ELSE [error |-> NoError, df_total |-> acc.total_row,
                  df_top3 |-> TopRows(acc.rows), df_all |-> acc.rows]

\* NetworkRevenue.get_revenue_summary, given the html the GET returned
get_revenue_summary(html) ==
    LET r == _parse_revenue_table(html)
    IN [error |-> r.error, total_value |-> r.df_total.Revenue,
        df_top3 |-> r.df_top3]

\* ------------------------------------------------ ConversionReportDownloader
\* The export body is a text of newline-terminated lines.  A line is known
\* by what the code can observe of it: whether it holds the fragment
\* "Call Center Rep", how pandas reads it, and its length in characters.
\*   header          the CSV header, with the column
\*                   "Outbound Communication Count"
\*   header_nocount  a header holding the fragment but not that column
\*   row             a data row whose count cell is the integer `count`
\*   row_bad         a data row whose count cell is not an integer
\*   row_ragged      a data row with more fields than the header
\*   html            any other text (an error or login page)
\*   blank           an empty line
Line(kind, len, count) == [kind |-> kind, len |-> len, count |-> count]

Lines ==
    { Line("header", 60, 0), Line("header", 600, 0),
      Line("header_nocount", 20, 0),
      Line("row", 20, 1), Line("row", 20, 2),
      Line("row_bad", 20, 0), Line("row_ragged", 20, 0),
      Line("html", 20, 0), Line("html", 600, 0),
      Line("blank", 0, 0) }

HasFragment(line) == line.kind \in {"header", "header_nocount"}

\* len(csv_text)
RECURSIVE TextLen(_)
TextLen(lines) ==
    IF lines = <<>> THEN 0 ELSE Head(lines).len + 1 + TextLen(Tail(lines))

ExcerptLen == 500

\* len(csv_text[:500])
Excerpt(lines) == Min(TextLen(lines), ExcerptLen)

\* pd.read_csv(StringIO(csv_text)): blank lines are skipped, the first line
\* is the header, a line with too many fields is a ParserError
DataLines(lines) == SelectSeq(Tail(lines), LAMBDA l : l.kind # "blank")

NoFrame(err, didParse) ==
    [error |-> err, parsed |-> didParse, counts |-> <<>>]

\* download_report from the export response on: lines 210-222
download_report(lines) ==
    IF lines = <<>>
    THEN NoFrame(Exc("IndexError", "list index out of range"), FALSE)
    ELSE IF ~HasFragment(lines[1])
    THEN NoFrame([type |-> "ValueError",
                  msg |-> "Unexpected response format from Canvas",
                  excerpt |-> Excerpt(lines)], FALSE)
    ELSE IF \E i \in DOMAIN DataLines(lines) : DataLines(lines)[i].kind = "row_ragged"
    THEN NoFrame([type |-> "ValueError", msg |-> "Failed to parse CSV",
                  excerpt |-> Excerpt(lines)], TRUE)
    ELSE IF lines[1].kind = "header_nocount"
    THEN NoFrame(Exc("KeyError", "Outbound Communication Count"), TRUE)
    ELSE IF \E i \in DOMAIN DataLines(lines) : DataLines(lines)[i].kind # "row"
    THEN NoFrame(Exc("ValueError", "invalid literal for int()"), TRUE)
    ELSE [error |-> NoError, parsed |-> TRUE,
          counts |-> [i \in DOMAIN DataLines(lines) |-> DataLines(lines)[i].count]]

\* get_total_outbound_communications from the export response on
get_total_outbound_communications(lines) ==
    LET df == download_report(lines)
    IN [error |-> df.error, parsed |-> df.parsed,
        summed |-> df.error.type = "none",
        total |-> IF df.error.type = "none" THEN SumSeq(df.counts) ELSE 0]

\* ------------------------------------------------------- JobsStatusScraper
STATUS_FILTERS ==
    [name \in {"Submitted to Manufacturing Partner", "Order Shipped"} |->
        IF name = "Order Shipped" THEN 6 ELSE 5]

\* a value of the ID column: a string, or what pandas made of the cell (an
\* integer, NaN), known by its printed form
OrderId(isStr, chars) == [isStr |-> isStr, chars |-> chars]

\* The listing body after tag stripping, known by how pandas reads it:
\*   empty         nothing left         malformed  a ParserError
\*   noid          a CSV header without the ID column
\*   nofranchisee  a CSV header without the Franchisee column
\*   rows          a CSV with both columns and one data row per id of `ids`
\*                 (ids may be empty: the header only)
Listing(kind, ids) == [kind |-> kind, ids |-> ids]

\* _build_url: URL_TEMPLATE with its three slots filled in
_build_url(status_filter_id, date_range) ==
    [status |-> status_filter_id, window |-> date_range]

ClassifyAnyCase(order_id) ==
    IF ~order_id.isStr \/ order_id.chars = <<>> THEN "New"
    ELSE IF Head(order_id.chars) \in {"C", "c"} THEN "Claim"
    ELSE IF Head(order_id.chars) \in {"R", "r"} THEN "Reorder"
    ELSE "New"

_classify_order_type(order_id) ==
    IF ~order_id.isStr THEN "New"
    ELSE IF order_id.chars # <<>> /\ Head(order_id.chars) = "C" THEN "Claim"
    ELSE IF order_id.chars # <<>> /\ Head(order_id.chars) = "R" THEN "Reorder"
    ELSE IF order_id.chars # <<>> /\ Head(order_id.chars) \in Digits THEN "New"
    ELSE "New"

\* what a call leaves behind: the exception, the frame and len() of it, the
\* URLs built, the URLs requested and the session calls made
Fetched(err, df, urls, r) ==
    [error |-> err, df |-> df, count |-> Len(df), urls |-> urls,
     gets |-> urls, attempts |-> r.attempts]

\* pd.read_csv on an empty string
FetchEmptyRaises(status_name, status_filter_id, date_range, o, listing) ==
    LET r == get(o)
        urls == <<_build_url(status_filter_id, date_range)>>
    IN IF r.raised THEN Fetched(r.error, <<>>, urls, r)
       ELSE IF listing.kind = "rows" /\ listing.ids # <<>>
       THEN Fetched(NoError, [i \in DOMAIN listing.ids |->
                        [ID |-> listing.ids[i], Status |-> status_name,
                         Order_Type |-> _classify_order_type(listing.ids[i])]],
                    urls, r)
       ELSE Fetched(Exc("EmptyDataError", ""), <<>>, urls, r)

_fetch_status_data(status_name, status_filter_id, date_range, o, listing) ==
    LET r == get(o)
        urls == <<_build_url(status_filter_id, date_range)>>
    IN IF r.raised THEN Fetched(r.error, <<>>, urls, r)
       ELSE CASE listing.kind = "empty" -> Fetched(NoError, <<>>, urls, r)
              [] listing.kind = "malformed" ->
                     Fetched(Exc("ParserError", ""), <<>>, urls, r)
              [] listing.kind = "noid" ->
                     Fetched(Exc("KeyError", "ID"), <<>>, urls, r)
              [] listing.kind = "nofranchisee" ->
                     Fetched(Exc("KeyError", "Franchisee"), <<>>, urls, r)
              [] OTHER ->
                     Fetched(NoError,
                             [i \in DOMAIN listing.ids |->
                                 [ID |-> listing.ids[i], Status |-> status_name,
                                  Order_Type |-> _classify_order_type(listing.ids[i])]],
                             urls, r)

CountUnchecked(status_name, date_range, o, listing) ==
    LET f == _fetch_status_data(status_name,
                 IF status_name \in DOMAIN STATUS_FILTERS
                 THEN STATUS_FILTERS[status_name] ELSE 0,
                 date_range, o, listing)
    IN IF f.error.type = "none" /\ status_name \notin DOMAIN STATUS_FILTERS
       THEN [f EXCEPT !.error = Exc("ValueError", "Unknown status")]
       ELSE f

count_jobs_by_status(status_name, date_range, o, listing) ==
    IF status_name \notin DOMAIN STATUS_FILTERS
    THEN [error |-> Exc("ValueError", "Unknown status"), df |-> <<>>,
          count |-> 0, urls |-> <<>>, gets |-> <<>>, attempts |-> 0]
    ELSE _fetch_status_data(status_name, STATUS_FILTERS[status_name],
                            date_range, o, listing)

\* ----------------------------------------------- MeasurementShippedScraper
\* the text of a date as pd.to_datetime(..., errors="coerce") reads it: a
\* time stamp t (in hours), or NaT when the text does not parse
Stamp(ok, t) == [ok |-> ok, t |-> t]

\* the "Measurement Approved Date" cell: blank (pandas reads NaN, a float),
\* or a string, known by its comma-separated entries
History(blank, entries) == [blank |-> blank, entries |-> entries]

\* The shipped listing after tag stripping:
\*   empty      nothing left            malformed  a ParserError
\*   rows       a CSV with the two date columns and the data rows `rows`,
\*              each [shipped |-> Stamp, measured |-> History]
Shipped(kind, rows) == [kind |-> kind, rows |-> rows]

\* int(a / b) for b > 0: truncation toward zero
Trunc(a, b) == IF a >= 0 THEN a \div b ELSE -((-a) \div b)

Human(text, days, hours) == [text |-> text, days |-> days, hours |-> hours]

DaysHoursRounded(avg) ==
    Human("days, hours", Trunc(avg, 1440),
          Trunc(avg - Trunc(avg, 1440) * 1440 + 30, 60))

\* lines 494-497 (and 260-263): days = int(avg), hours = int((avg - days) * 24)
\* and the f-string "{days} days, {hours} hours"; avg in minutes
DaysHours(avg) ==
    Human("days, hours", Trunc(avg, 1440),
          Trunc(avg - Trunc(avg, 1440) * 1440, 60))

MeasurementRaisesOnNoDates(listing) ==
    [error |-> IF listing.kind = "rows" /\ listing.rows # <<>>
                  /\ \A i \in DOMAIN listing.rows :
                         /\ listing.rows[i].shipped.ok
                         /\ ~listing.rows[i].measured.blank
                         /\ listing.rows[i].measured.entries[
                                Len(listing.rows[i].measured.entries)].ok
               THEN NoError ELSE Exc("ValueError", "No valid dates"),
     avg |-> 0, human |-> Human("", 0, 0)]

\* measurement_to_shipped from the response on: lines 473-499.  The average
\* (a float of days in the code) is counted in minutes; the mean of up to six
\* whole-hour differences is a whole number of minutes.
measurement_to_shipped(listing) ==
    CASE listing.kind = "empty" ->
             [error |-> NoError, avg |-> 0, human |-> Human("No data", 0, 0)]
      [] listing.kind = "malformed" ->
             [error |-> Exc("ParserError", ""), avg |-> 0, human |-> Human("", 0, 0)]
      [] OTHER ->
             IF \E i \in DOMAIN listing.rows : listing.rows[i].measured.blank
             THEN [error |-> Exc("AttributeError",
                                 "'float' object has no attribute 'split'"),
                   avg |-> 0, human |-> Human("", 0, 0)]
             ELSE LET measured(row) ==
                          row.measured.entries[Len(row.measured.entries)]
                      both(row) == row.shipped.ok /\ measured(row).ok
                      kept == SelectSeq(listing.rows, both)
                      diffs == [i \in DOMAIN kept |->
                                   kept[i].shipped.t - measured(kept[i]).t]
                      avg == (SumSeq(diffs) * 60) \div Len(diffs)
                  IN IF kept = <<>>
                     THEN [error |-> NoError, avg |-> 0,
                           human |-> Human("No valid dates", 0, 0)]
                     ELSE [error |-> NoError, avg |-> avg, human |-> DaysHours(avg)]

\* ------------------------------------------------------ PDFReportGenerator
\* a number as Python holds it: a built-in int or float, or a numpy scalar
\* (np.int64 from Series.sum(), np.float64 from a DataFrame cell)
Number(np, v) == [np |-> np, v |-> v]

\* f"{x:.1f}" of the quotient n / d * 100 (n >= 0, d > 0), in tenths of a
\* percent: nearest tenth, a tie to the even digit
RoundTenths(n, d) ==
    LET q == (n * 1000) \div d
        r == (n * 1000) % d
    IN IF 2 * r > d \/ (2 * r = d /\ q % 2 = 1) THEN q + 1 ELSE q

\* _format_yoy_stat: the arrow, the percent text and the two amounts.  A
\* division by zero raises ZeroDivisionError on built-in numbers only; on
\* numpy scalars it gives inf (nan for 0 / 0) and a warning.
_format_yoy_stat(label, current, last_year, is_currency) ==
    LET delta == current.v - last_year.v
        abs(x) == IF x < 0 THEN -x ELSE x
        percent_change ==
            IF last_year.v # 0
            THEN [text |-> "number", sign |-> IF delta * last_year.v >= 0 THEN 1 ELSE -1,
                  tenths |-> RoundTenths(abs(delta), abs(last_year.v))]
            ELSE IF ~(current.np \/ last_year.np)
            THEN [text |-> "number", sign |-> 1, tenths |-> 0]
            ELSE IF delta = 0 THEN [text |-> "nan", sign |-> 0, tenths |-> 0]
            ELSE [text |-> "inf", sign |-> IF delta > 0 THEN 1 ELSE -1, tenths |-> 0]
        amount(x) == [dollar |-> is_currency, thousands |-> x.v \div 1000,
                      units |-> x.v % 1000]
    IN [label |-> label,
        arrow |-> IF percent_change.sign = 1 THEN "up" ELSE "down",
        percent_display |-> [text |-> percent_change.text,
                             tenths |-> percent_change.tenths],
        current_display |-> amount(current),
        last_year_display |-> amount(last_year)]

DurationComparisonFloored(label, current_days, last_year_days) ==
    LET diff_days == (current_days - last_year_days) \div 1440
    IN [label |-> label, cur |-> DaysHours(current_days),
        arrow |-> IF diff_days >= 0 THEN "up" ELSE "down",
        diff_abs |-> IF diff_days < 0 THEN -diff_days ELSE diff_days,
        ly |-> DaysHours(last_year_days)]

\* _format_duration_comparison: both durations as days and hours, the arrow
\* and the whole-day difference; durations in minutes
_format_duration_comparison(label, current_days, last_year_days) ==
    LET diff_days == Trunc(current_days - last_year_days, 1440)
    IN [label |-> label, cur |-> DaysHours(current_days),
        arrow |-> IF diff_days >= 0 THEN "up" ELSE "down",
        diff_abs |-> IF diff_days < 0 THEN -diff_days ELSE diff_days,
        ly |-> DaysHours(last_year_days)]

\* create_report lines 302-305: the four year-over-year lines, each with the
\* kind of number generate_report put in the record (lines 227, 157, 410)
YoyLines ==
    {[label |-> "SSC Touches", np |-> TRUE, is_currency |-> FALSE],
     [label |-> "Orders Shipped", np |-> FALSE, is_currency |-> FALSE],
     [label |-> "Orders Submitted", np |-> FALSE, is_currency |-> FALSE],
     [label |-> "Network Revenue", np |-> TRUE, is_currency |-> TRUE]}

\* ---------------------------------------------------- WeeklyReportGenerator
\* WeeklyReportGenerator.__init__: the session first, then the collaborators,
\* each holding a reference to that one session (object 1)
Collaborators ==
    {"jobs_scraper", "conversion_downloader", "network_revenue",
     "meas_shipped_scraper", "pdf_generator"}

WeeklyReportGenerator_init(d, u) ==
    LET s == CreateSession(d, u)
    IN IF s.error.type # "none"
       THEN [error |-> s.error, jar |-> {}, constructed |-> {}]
       ELSE [error |-> NoError, jar |-> s.jar,
             constructed |-> {[name |-> c, session |-> 1] : c \in Collaborators}]

SessionOf(name) ==
    (CHOOSE c \in constructed : c.name = name).session

\* the step after a call of generate_report: an exception raised by the call
\* propagates (nothing catches it), otherwise the next statement runs
ContinueAfter(err, next) == next

After(err, next) == IF err.type # "none" THEN "failed" ELSE next

CurrentSteps == {"rev_cur", "meas_cur", "conv_post_cur", "conv_get_cur",
                 "ship_cur", "sub_cur"}

\* the DateRange generate_report passes at each call: lines 531-550
WindowAlwaysCurrent(p, r) == r.current_range

WindowAt(p, r) ==
    IF p \in CurrentSteps THEN r.current_range ELSE r.last_year_range

\* the status name passed to count_jobs_by_status: lines 545-550
StatusAt(p) ==
    IF p \in {"ship_cur", "ship_ly"} THEN "Order Shipped"
    ELSE "Submitted to Manufacturing Partner"

NoRun == [entry |-> "none", today |-> NoDate, days_back |-> 0,
          current_range |-> NoRange, last_year_range |-> NoRange]

NoData ==
    [ssc_current |-> 0, ssc_last_year |-> 0,
     shipped_current |-> 0, shipped_last_year |-> 0,
     submitted_current |-> 0, submitted_last_year |-> 0,
     revenue_current |-> 0, revenue_last_year |-> 0,
     avg_meas_current |-> 0, avg_meas_lastyr |-> 0,
     top3_locations |-> <<>>]

NoRender == [invoked |-> FALSE, data |-> NoData, date_range |-> NoRange,
             pull_date |-> NoDate]

Call(fn, status, range, returned, value, top3) ==
    [fn |-> fn, status |-> status, range |-> range, returned |-> returned,
     value |-> value, top3 |-> top3]

Req(method, endpoint, filter, window, client, o, r, ctx) ==
    [method |-> method, endpoint |-> endpoint, filter |-> filter,
     window |-> window, client |-> client, transport |-> o.transport,
     status |-> o.status, attempts |-> r.attempts, raised |-> r.raised,
     ctx |-> ctx]

\* the inputs of the runs
Todays == {Date(2024, 3, 30), Date(2024, 2, 29), Date(2025, 1, 15)}

DaysBacks == {1, 30}

AdaRow == << <<"1">>, <<"A", "d", "a">>, <<"$", "3", "0">> >>

BixRow == << <<"2">>, <<"B", "i", "x">>, <<"$", "2", ",", "0">> >>

CydRow == << <<"3">>, <<"C", "y", "d">>, <<"$", "1", "0">> >>

DeeRow == << <<"4">>, <<"D", "e", "e">>, <<" ", "$", "2", "0", " ">> >>

TotalRow == << <<>>, <<"T", "o", "t", "a", "l">>, <<"$", "8", ",", "0">> >>

UpperTotalRow == << <<>>, <<" ", "T", "O", "T", "A", "L">>, <<"$", "9", "9">> >>

ShortRow == << <<"T", "o", "t", "a", "l">>, <<"$", "7">> >>

BadRevenueRow == << <<"5">>, <<"E", "l", "i">>, <<"n", "/", "a">> >>

BadRankRow == << <<>>, <<"F", "a", "y">>, <<"$", "1">> >>

RunPages == { << <<AdaRow, TotalRow>> >>,
              << <<TotalRow>>, <<BixRow, AdaRow, CydRow, DeeRow, UpperTotalRow>> >>,
              << <<AdaRow, BixRow>> >> }

RunBodies == { <<>>, <<Line("html", 600, 0)>>,
               <<Line("header", 60, 0), Line("row", 20, 2)>> }

RunListings ==
    {Listing("rows", <<OrderId(TRUE, <<"C", "1">>), OrderId(FALSE, <<"7", "8">>)>>),
     Listing("malformed", <<>>)}

RunShipped ==
    {Shipped("empty", <<>>),
     Shipped("rows", <<[shipped |-> Stamp(TRUE, 490),
                        measured |-> History(FALSE, <<Stamp(TRUE, 0), Stamp(TRUE, 121)>>)]>>),
     Shipped("rows", <<[shipped |-> Stamp(TRUE, 490),
                        measured |-> History(FALSE, <<Stamp(FALSE, 0)>>)]>>),
     Shipped("rows", <<[shipped |-> Stamp(TRUE, 490),
                        measured |-> History(TRUE, <<>>)]>>)}

\* ------------------------------------------------------------------ actions
ResetRunTo(r) ==
    /\ jar' = {}
    /\ constructed' = {}
    /\ run' = r
    /\ calls' = <<>>
    /\ requests' = <<>>
    /\ sessionCalls' = 0
    /\ data' = NoData
    /\ rendered' = NoRender
    /\ pdf' = FALSE
    /\ error' = NoError

Resting == pc \in {"idle", "done", "failed"}

pureVars == <<page, parsed, body, conv, input, output>>

\* the user picks (or removes) a file: the script reruns, button not pressed
UploadFile(f) ==
    /\ Resting
    /\ uploaded' = f
    /\ valid_cookies' = Validate(f, clock)
    /\ validatedAt' = clock
    /\ pc' = "idle"
    /\ ResetRunTo(NoRun)
    /\ UNCHANGED <<disk, clock, serverCtx, pureVars>>

Tick ==
    /\ Resting
    /\ clock < MaxClock
    /\ clock' = clock + 1
    /\ UNCHANGED <<disk, uploaded, valid_cookies, validatedAt, pc, jar,
                   constructed, run, calls, requests, sessionCalls, serverCtx,
                   data, rendered, pdf, error, pureVars>>

AppDaysBack == 30

\* the user presses the button the last script run rendered: the script
\* reruns from the top, validates again, and enters the handler at line 276
\* only if valid_cookies is set by this rerun
ClickGenerate ==
    /\ Resting
    /\ valid_cookies
    /\ valid_cookies' = Validate(uploaded, clock)
    /\ validatedAt' = clock
    /\ IF Validate(uploaded, clock)
       THEN /\ pc' = "construct"
            /\ ResetRunTo([NoRun EXCEPT !.entry = "app", !.days_back = AppDaysBack])
       ELSE /\ pc' = "idle"
            /\ ResetRunTo(NoRun)
    /\ UNCHANGED <<disk, uploaded, clock, serverCtx, pureVars>>

\* report.py build_weekly_report(days_back): the entry point beside the page,
\* used while the page holds no file
BuildWeeklyReport(n) ==
    /\ Resting
    /\ uploaded = NoUpload
    /\ pc' = "construct"
    /\ ResetRunTo([NoRun EXCEPT !.entry = "cli", !.days_back = n])
    /\ UNCHANGED <<disk, uploaded, clock, valid_cookies, validatedAt,
                   serverCtx, pureVars>>

\* gen = WeeklyReportGenerator()
Construct ==
    /\ pc = "construct"
    /\ LET g == WeeklyReportGenerator_init(disk, uploaded)
       IN /\ jar' = g.jar
          /\ constructed' = g.constructed
          /\ error' = g.error
          /\ pc' = IF g.error.type # "none" THEN "failed" ELSE "start"
    /\ UNCHANGED <<disk, uploaded, clock, valid_cookies, validatedAt, run,
                   calls, requests, sessionCalls, serverCtx, data, rendered,
                   pdf, pureVars>>

\* generate_report lines 517-526: today, the two windows
StartReport(today) ==
    /\ pc = "start"
    /\ LET current_range == DateRange(MinusDays(today, run.days_back), today)
       IN IF get_last_year_raises(current_range)
          THEN /\ error' = Exc("ValueError", "day is out of range for month")
               /\ pc' = "failed"
               /\ run' = [run EXCEPT !.today = today,
                                     !.current_range = current_range]
          ELSE /\ error' = NoError
               /\ pc' = "rev_cur"
               /\ run' = [run EXCEPT !.today = today,
                                     !.current_range = current_range,
                                     !.last_year_range = get_last_year(current_range)]
    /\ UNCHANGED <<disk, uploaded, clock, valid_cookies, validatedAt, jar,
                   constructed, calls, requests, sessionCalls, serverCtx,
                   data, rendered, pdf, pureVars>>

frame == <<disk, uploaded, clock, valid_cookies, validatedAt, jar,
           constructed, run, rendered, pdf, pureVars>>

\* lines 531-532: network_revenue.get_revenue_summary(range)
Revenue(o, html) ==
    /\ pc \in {"rev_cur", "rev_ly"}
    /\ LET window == WindowAt(pc, run)
           r == get(o)
           s == get_revenue_summary(html)
           err == IF r.raised THEN r.error ELSE s.error
           ok == err.type = "none"
       IN /\ requests' = Append(requests,
                 Req("GET", "location_sales_rankings", 0, window,
                     SessionOf("network_revenue"), o, r, NoRange))
          /\ sessionCalls' = sessionCalls + r.attempts
          /\ calls' = Append(calls,
                 Call("get_revenue_summary", "", window, ok,
                      IF ok THEN s.total_value ELSE 0,
                      IF ok THEN s.df_top3 ELSE <<>>))
          /\ error' = err
          /\ pc' = After(err, IF pc = "rev_cur" THEN "rev_ly" ELSE "meas_cur")
          /\ data' = IF ~ok THEN data
                     ELSE IF pc = "rev_cur"
                     THEN [data EXCEPT !.revenue_current = s.total_value,
                                       !.top3_locations = s.df_top3]
                     ELSE [data EXCEPT !.revenue_last_year = s.total_value]
    /\ UNCHANGED <<frame, serverCtx>>

\* lines 535-536: meas_shipped_scraper.measurement_to_shipped(range)
Measurement(o, listing) ==
    /\ pc \in {"meas_cur", "meas_ly"}
    /\ LET window == WindowAt(pc, run)
           r == get(o)
           m == measurement_to_shipped(listing)
           err == IF r.raised THEN r.error ELSE m.error
           ok == err.type = "none"
       IN /\ requests' = Append(requests,
                 Req("GET", "listjobs_date_shipped", 0, window,
                     SessionOf("meas_shipped_scraper"), o, r, NoRange))
          /\ sessionCalls' = sessionCalls + r.attempts
          /\ calls' = Append(calls,
                 Call("measurement_to_shipped", "", window, ok,
                      IF ok THEN m.avg ELSE 0, <<>>))
          /\ error' = err
          /\ pc' = After(err, IF pc = "meas_cur" THEN "meas_ly" ELSE "conv_post_cur")
          /\ data' = IF ~ok THEN data
                     ELSE IF pc = "meas_cur"
                     THEN [data EXCEPT !.avg_meas_current = m.avg]
                     ELSE [data EXCEPT !.avg_meas_lastyr = m.avg]
    /\ UNCHANGED <<frame, serverCtx>>

\* lines 541-542 into download_report up to line 206: the search form POST
ConversionPost(o) ==
    /\ pc \in {"conv_post_cur", "conv_post_ly"}
    /\ LET window == WindowAt(pc, run)
           r == post(o)
       IN /\ requests' = Append(requests,
                 Req("POST", "conversion_form", 0, window,
                     SessionOf("conversion_downloader"), o, r, NoRange))
          /\ sessionCalls' = sessionCalls + r.attempts
          /\ calls' = Append(calls,
                 Call("get_total_outbound_communications", "", window, FALSE,
                      0, <<>>))
          /\ serverCtx' = IF ~o.transport /\ ~raise_for_status(o.status)
                          THEN window ELSE serverCtx
          /\ error' = r.error
          /\ pc' = After(r.error, IF pc = "conv_post_cur" THEN "conv_get_cur"
                                  ELSE "conv_get_ly")
    /\ UNCHANGED <<frame, data>>

\* download_report from line 209 on, then the sum: the export GET
ConversionGet(o, lines) ==
    /\ pc \in {"conv_get_cur", "conv_get_ly"}
    /\ LET window == WindowAt(pc, run)
           r == get(o)
           t == get_total_outbound_communications(lines)
           err == IF r.raised THEN r.error ELSE t.error
           ok == err.type = "none"
       IN /\ requests' = Append(requests,
                 Req("GET", "conversion_export", 0, window,
                     SessionOf("conversion_downloader"), o, r, serverCtx))
          /\ sessionCalls' = sessionCalls + r.attempts
          /\ calls' = [calls EXCEPT ![Len(calls)].returned = ok,
                                    ![Len(calls)].value = IF ok THEN t.total ELSE 0]
          /\ error' = err
          /\ pc' = After(err, IF pc = "conv_get_cur" THEN "conv_post_ly" ELSE "ship_cur")
          /\ data' = IF ~ok THEN data
                     ELSE IF pc = "conv_get_cur"
                     THEN [data EXCEPT !.ssc_current = t.total]
                     ELSE [data EXCEPT !.ssc_last_year = t.total]
    /\ UNCHANGED <<frame, serverCtx>>

JobSteps == {"ship_cur", "ship_ly", "sub_cur", "sub_ly"}

InterleavedJobStep(p) ==
    CASE p = "ship_cur" -> "sub_cur" [] p = "sub_cur" -> "ship_ly"
      [] p = "ship_ly" -> "sub_ly" [] OTHER -> "render"

NextJobStep(p) ==
    CASE p = "ship_cur" -> "ship_ly" [] p = "ship_ly" -> "sub_cur"
      [] p = "sub_cur" -> "sub_ly" [] OTHER -> "render"

\* lines 545-550: jobs_scraper.count_jobs_by_status(name, range); the count
\* is len(df)
CountJobs(o, listing) ==
    /\ pc \in JobSteps
    /\ LET window == WindowAt(pc, run)
           status_name == StatusAt(pc)
           c == count_jobs_by_status(status_name, window, o, listing)
           ok == c.error.type = "none"
       IN /\ requests' = requests \o
                 [i \in DOMAIN c.gets |->
                     Req("GET", "listjobs_status", c.gets[i].status,
                         c.gets[i].window, SessionOf("jobs_scraper"), o,
                         get(o), NoRange)]
          /\ sessionCalls' = sessionCalls + c.attempts
          /\ calls' = Append(calls,
                 Call("count_jobs_by_status", status_name, window, ok,
                      IF ok THEN c.count ELSE 0, <<>>))
          /\ error' = c.error
          /\ pc' = After(c.error, NextJobStep(pc))
          /\ data' = IF ~ok THEN data
                     ELSE CASE pc = "ship_cur" -> [data EXCEPT !.shipped_current = c.count]
                            [] pc = "ship_ly" -> [data EXCEPT !.shipped_last_year = c.count]
                            [] pc = "sub_cur" -> [data EXCEPT !.submitted_current = c.count]
                            [] OTHER -> [data EXCEPT !.submitted_last_year = c.count]
    /\ UNCHANGED <<frame, serverCtx>>

\* line 566: pdf_generator.create_report(data, current_range, pull_date_str);
\* doc.build may fail on the file system
Render(built) ==
    /\ pc = "render"
    /\ rendered' = [invoked |-> TRUE, data |-> data,
                    date_range |-> run.current_range, pull_date |-> run.today]
    /\ pdf' = built
    /\ error' = IF built THEN NoError ELSE Exc("OSError", "")
    /\ pc' = After(error', "done")
    /\ UNCHANGED <<disk, uploaded, clock, valid_cookies, validatedAt, jar,
                   constructed, run, calls, requests, sessionCalls, serverCtx,
                   data, pureVars>>

NoParse == [done |-> FALSE, error |-> NoError, df_total |-> NoTotal,
            df_top3 |-> <<>>, df_all |-> <<>>]

NoConv == [done |-> FALSE, error |-> NoError, parsed |-> FALSE,
           summed |-> FALSE, total |-> 0]

\* no function is being exercised on its own
NoInput == [fn |-> "none"]

NoOutput == [done |-> FALSE]

AppIdle ==
    /\ uploaded = NoUpload
    /\ clock = 0
    /\ valid_cookies = FALSE
    /\ validatedAt = 0
    /\ pc = "idle"
    /\ jar = {}
    /\ constructed = {}
    /\ run = NoRun
    /\ calls = <<>>
    /\ requests = <<>>
    /\ sessionCalls = 0
    /\ serverCtx = NoRange
    /\ data = NoData
    /\ rendered = NoRender
    /\ pdf = FALSE
    /\ error = NoError

Init ==
    /\ disk \in DiskFiles
    /\ AppIdle
    /\ page = <<>>
    /\ parsed = NoParse
    /\ body = <<>>
    /\ conv = NoConv
    /\ input = NoInput
    /\ output = NoOutput

Next ==
    \/ \E f \in UploadFiles \cup {NoUpload} : UploadFile(f)
    \/ Tick
    \/ ClickGenerate
    \/ \E n \in DaysBacks : BuildWeeklyReport(n)
    \/ Construct
    \/ \E today \in Todays : StartReport(today)
    \/ \E o \in Outcomes, pg \in RunPages : Revenue(o, pg)
    \/ \E o \in Outcomes, listing \in RunShipped : Measurement(o, listing)
    \/ \E o \in Outcomes : ConversionPost(o)
    \/ \E o \in Outcomes, lines \in RunBodies : ConversionGet(o, lines)
    \/ \E o \in Outcomes, listing \in RunListings : CountJobs(o, listing)
    \/ \E built \in BOOLEAN : Render(built)

Spec == Init /\ [][Next]_vars

\* ------------------------------------------- the revenue parser on its own
TableRows == {AdaRow, BixRow, CydRow, DeeRow, TotalRow, UpperTotalRow,
              ShortRow, BadRevenueRow, BadRankRow}

Tables ==
    {t \in SeqsUpTo(TableRows, MaxRows) :
        \A i, j \in DOMAIN t : i # j => t[i] # t[j]}

DecoyTable == <<CydRow, ShortRow, TotalRow>>

Pages == {<<>>} \cup {<<t>> : t \in Tables}
            \cup {<<DecoyTable, t>> : t \in {u \in Tables : Len(u) <= 2}}

InitRevenue ==
    /\ disk = Absent
    /\ AppIdle
    /\ page \in Pages
    /\ parsed = NoParse
    /\ body = <<>>
    /\ conv = NoConv
    /\ input = NoInput
    /\ output = NoOutput

ParseRevenueTable ==
    /\ ~parsed.done
    /\ LET r == _parse_revenue_table(page)
       IN parsed' = [done |-> TRUE, error |-> r.error, df_total |-> r.df_total,
                     df_top3 |-> r.df_top3, df_all |-> r.df_all]
    /\ UNCHANGED <<appVars, page, body, conv, input, output>>

NextRevenue == ParseRevenueTable

SpecRevenue == InitRevenue /\ [][NextRevenue]_vars

\* ------------------------------------- the conversion downloader on its own
Bodies == SeqsUpTo(Lines, MaxLines)

InitConversion ==
    /\ disk = Absent
    /\ AppIdle
    /\ page = <<>>
    /\ parsed = NoParse
    /\ body \in Bodies
    /\ conv = NoConv
    /\ input = NoInput
    /\ output = NoOutput

DownloadReport ==
    /\ ~conv.done
    /\ LET t == get_total_outbound_communications(body)
       IN conv' = [done |-> TRUE, error |-> t.error, parsed |-> t.parsed,
                   summed |-> t.summed, total |-> t.total]
    /\ UNCHANGED <<appVars, page, parsed, body, input, output>>

NextConversion == DownloadReport

SpecConversion == InitConversion /\ [][NextConversion]_vars

\* ------------------------------------------- the jobs scraper on its own
Ids == {OrderId(TRUE, <<"C", "1">>), OrderId(TRUE, <<"R", "4">>),
        OrderId(TRUE, <<"7", "8">>), OrderId(TRUE, <<>>),
        OrderId(TRUE, <<"X", "Y">>), OrderId(TRUE, <<"c", "1">>),
        OrderId(FALSE, <<"7", "8">>), OrderId(FALSE, <<"n", "a", "n">>)}

JobListings ==
    {Listing(k, <<>>) : k \in {"empty", "malformed", "noid", "nofranchisee"}}
        \cup {Listing("rows", ids) : ids \in SeqsUpTo(Ids, MaxJobs)}

\* the names a caller may pass: the two of STATUS_FILTERS and another one
JobNames == DOMAIN STATUS_FILTERS \cup {"Delivered"}

JobRanges == {DateRange(MinusDays(t, 1), t) : t \in Todays}

InitJobs ==
    /\ disk = Absent
    /\ AppIdle
    /\ page = <<>>
    /\ parsed = NoParse
    /\ body = <<>>
    /\ conv = NoConv
    /\ input \in [fn : {"count_jobs_by_status"}, status_name : JobNames,
                  date_range : JobRanges, o : Outcomes, listing : JobListings]
    /\ output = NoOutput

CountJobsByStatus ==
    /\ input.fn = "count_jobs_by_status"
    /\ ~output.done
    /\ LET c == count_jobs_by_status(input.status_name, input.date_range,
                                     input.o, input.listing)
       IN output' = [done |-> TRUE, error |-> c.error, df |-> c.df,
                     count |-> c.count, urls |-> c.urls, gets |-> c.gets]
    /\ UNCHANGED <<appVars, page, parsed, body, conv, input>>

NextJobs == CountJobsByStatus

SpecJobs == InitJobs /\ [][NextJobs]_vars

\* --------------------------------- the measurement-to-shipped scraper alone
ShippedRows ==
    [shipped : {Stamp(TRUE, 100), Stamp(TRUE, 490), Stamp(FALSE, 0)},
     measured : {History(TRUE, <<>>),
                 History(FALSE, <<Stamp(TRUE, 0)>>),
                 History(FALSE, <<Stamp(FALSE, 0)>>),
                 History(FALSE, <<Stamp(TRUE, 0), Stamp(TRUE, 121)>>),
                 History(FALSE, <<Stamp(TRUE, 121), Stamp(FALSE, 0)>>),
                 History(FALSE, <<Stamp(FALSE, 0), Stamp(TRUE, 100)>>)}]

\* a CSV listing has at least one data row here
ShippedListings ==
    {Shipped("empty", <<>>), Shipped("malformed", <<>>)}
        \cup {Shipped("rows", rows) :
                  rows \in SeqsUpTo(ShippedRows, MaxShipped) \ {<<>>}}

InitShipped ==
    /\ disk = Absent
    /\ AppIdle
    /\ page = <<>>
    /\ parsed = NoParse
    /\ body = <<>>
    /\ conv = NoConv
    /\ input \in [fn : {"measurement_to_shipped"}, listing : ShippedListings]
    /\ output = NoOutput

MeasurementToShipped ==
    /\ input.fn = "measurement_to_shipped"
    /\ ~output.done
    /\ LET m == measurement_to_shipped(input.listing)
       IN output' = [done |-> TRUE, error |-> m.error, avg |-> m.avg,
                     human |-> m.human]
    /\ UNCHANGED <<appVars, page, parsed, body, conv, input>>

NextShipped == MeasurementToShipped

SpecShipped == InitShipped /\ [][NextShipped]_vars

\* ----------------------------------- the year-over-year formatter on its own
InitFormat ==
    /\ disk = Absent
    /\ AppIdle
    /\ page = <<>>
    /\ parsed = NoParse
    /\ body = <<>>
    /\ conv = NoConv
    /\ input \in [fn : {"_format_yoy_stat"}, line : YoyLines,
                  current : {0, 3, 90, 100, 110, 1234},
                  last_year : {0, 3, 7, 100, 1000}]
    /\ output = NoOutput

FormatYoyStat ==
    /\ input.fn = "_format_yoy_stat"
    /\ ~output.done
    /\ LET f == _format_yoy_stat(input.line.label,
                                 Number(input.line.np, input.current),
                                 Number(input.line.np, input.last_year),
                                 input.line.is_currency)
       IN output' = [done |-> TRUE, arrow |-> f.arrow,
                     percent_display |-> f.percent_display,
                     current_display |-> f.current_display,
                     last_year_display |-> f.last_year_display]
    /\ UNCHANGED <<appVars, page, parsed, body, conv, input>>

NextFormat == FormatYoyStat

SpecFormat == InitFormat /\ [][NextFormat]_vars

\* ---------------------------------- the duration comparison on its own
\* averages as measurement_to_shipped returns them, in minutes: the
\* sentinel 0, whole days, and values a few minutes to hours off them
Durations == {-1260, 0, 90, 1440, 1500, 2879, 2880, 2881, 4000, 10000}

InitDuration ==
    /\ disk = Absent
    /\ AppIdle
    /\ page = <<>>
    /\ parsed = NoParse
    /\ body = <<>>
    /\ conv = NoConv
    /\ input \in [fn : {"_format_duration_comparison"},
                  current_days : Durations, last_year_days : Durations]
    /\ output = NoOutput

\* create_report line 312
FormatDurationComparison ==
    /\ input.fn = "_format_duration_comparison"
    /\ ~output.done
    /\ LET f == _format_duration_comparison(
                    "Avg. Time From Measurement to Shipped",
                    input.current_days, input.last_year_days)
       IN output' = [done |-> TRUE, cur |-> f.cur, arrow |-> f.arrow,
                     diff_abs |-> f.diff_abs, ly |-> f.ly]
    /\ UNCHANGED <<appVars, page, parsed, body, conv, input>>

NextDuration == FormatDurationComparison

SpecDuration == InitDuration /\ [][NextDuration]_vars

\* ------------------------------------------------- DateRange on its own
Days == {Date(2020, 2, 29), Date(2021, 6, 15), Date(2022, 1, 1),
         Date(2023, 12, 31), Date(2024, 2, 28), Date(2024, 2, 29),
         Date(2024, 3, 1), Date(2024, 3, 30), Date(2025, 1, 15),
         Date(2025, 2, 28)}

\* the ranges generate_report builds end no earlier than they start
DateRanges ==
    {DateRange(s, e) : s \in Days, e \in Days} \cap
    {r \in [start : Days, end : Days] :
        \/ r.start.y < r.end.y
        \/ r.start.y = r.end.y /\ r.start.m < r.end.m
        \/ r.start.y = r.end.y /\ r.start.m = r.end.m /\ r.start.d <= r.end.d}

\* output.self is the receiver after the calls, output.results what the
\* successive calls returned (each applied to the result before it)
InitDates ==
    /\ disk = Absent
    /\ AppIdle
    /\ page = <<>>
    /\ parsed = NoParse
    /\ body = <<>>
    /\ conv = NoConv
    /\ input \in [fn : {"get_last_year"}, range : DateRanges]
    /\ output = [done |-> FALSE, error |-> NoError, results |-> <<>>,
                 self |-> input.range]

GetLastYear ==
    /\ input.fn = "get_last_year"
    /\ output.error = NoError
    /\ Len(output.results) < MaxShifts
    /\ LET r == IF output.results = <<>> THEN input.range
                ELSE output.results[Len(output.results)]
       IN output' =
              IF get_last_year_raises(r)
              THEN [output EXCEPT !.done = TRUE,
                       !.error = Exc("ValueError", "day is out of range for month")]
              ELSE [output EXCEPT !.done = TRUE,
                       !.results = Append(@, get_last_year(r))]
    /\ UNCHANGED <<appVars, page, parsed, body, conv, input>>

NextDates == GetLastYear

SpecDates == InitDates /\ [][NextDates]_vars

\* ================================================================== claims
Last(q) == q[Len(q)]

Success(status) == status \in 200..299

\* C1: fail-fast.  A call of generate_report is issued only after every
\* earlier one returned, and once an extractor call has failed the run is
\* over with that error: the failed call stays the last one, create_report
\* is never invoked and no PDF is written.
C1_FailFast ==
    /\ \A i \in 1..(Len(calls) - 1) : calls[i].returned
    /\ (calls # <<>> /\ ~Last(calls).returned /\ error.type # "none")
          => /\ pc = "failed"
             /\ ~rendered.invoked
             /\ ~pdf

C1_Witness ==
    /\ pc = "failed"
    /\ Len(calls) = 5
    /\ ~Last(calls).returned
    /\ error.type = "ValueError"

\* C2: every export GET directly follows the form POST of the same window,
\* issued on the same client, and that POST succeeded; a form POST is
\* followed by nothing but its export GET, so the export is produced under
\* the report context that POST set.
C2_PostThenGet ==
    \A i \in DOMAIN requests :
        /\ requests[i].endpoint = "conversion_export"
              => /\ i > 1
                 /\ requests[i - 1].method = "POST"
                 /\ requests[i - 1].endpoint = "conversion_form"
                 /\ ~requests[i - 1].transport
                 /\ Success(requests[i - 1].status)
                 /\ requests[i - 1].window = requests[i].window
                 /\ requests[i - 1].client = requests[i].client
                 /\ requests[i].method = "GET"
                 /\ requests[i].ctx = requests[i].window
        /\ (requests[i].endpoint = "conversion_form" /\ i < Len(requests))
              => requests[i + 1].endpoint = "conversion_export"

C2_Witness ==
    /\ pc = "done"
    /\ \E i \in DOMAIN requests :
          /\ requests[i].endpoint = "conversion_export"
          /\ requests[i].window = run.last_year_range
          /\ requests[i].ctx = run.last_year_range

\* C3: with no cookie file on disk the construction of the orchestrator ends
\* in the missing-cookie-file error, with no collaborator constructed, no
\* extractor call and no HTTP request.
C3_MissingCookieFile ==
    (disk.kind = "absent" /\ pc \notin {"idle", "construct"})
        => /\ pc = "failed"
           /\ error.type = "FileNotFoundError"
           /\ constructed = {}
           /\ calls = <<>>
           /\ requests = <<>>
           /\ sessionCalls = 0

C3_Witness ==
    /\ disk.kind = "absent"
    /\ run.entry = "app"
    /\ pc = "failed"
    /\ error.type = "FileNotFoundError"

\* C4: a run the page starts holds, in its session's jar, exactly the
\* cookies of the uploaded file that passed validation.
C4_JarIsUpload ==
    (run.entry = "app" /\ constructed # {}) => jar = JarOf(uploaded.cookies)

\* C5: the page enters the generate handler only with an uploaded file that
\* parsed and whose latest expirationDate is not before the time of the
\* validation.
RawExpirations(f) ==
    {f.cookies[i].expirationDate :
        i \in {j \in DOMAIN f.cookies : f.cookies[j].hasExp}}

C5_OnlyValidUpload ==
    (run.entry = "app" /\ pc # "idle")
        => /\ uploaded.kind = "json"
           /\ RawExpirations(uploaded) # {}
           /\ SetMax(RawExpirations(uploaded)) >= validatedAt

C5_Witness ==
    /\ run.entry = "app"
    /\ pc = "rev_cur"
    /\ clock > 0
    /\ Cardinality(RawExpirations(uploaded)) = 2

Metrics ==
    { <<"get_revenue_summary", "">>,
      <<"measurement_to_shipped", "">>,
      <<"get_total_outbound_communications", "">>,
      <<"count_jobs_by_status", "Order Shipped">>,
      <<"count_jobs_by_status", "Submitted to Manufacturing Partner">> }

YearBack(dt) == Date(dt.y - 1, dt.m, dt.d)

CallsOf(m, range) ==
    {i \in DOMAIN calls :
        <<calls[i].fn, calls[i].status>> = m /\ calls[i].range = range}

C7_TenCalls ==
    /\ rendered.invoked
          => /\ Len(calls) = 10
             /\ \A i \in DOMAIN calls : calls[i].returned
    /\ pc = "done"
          => LET current == DateRange(MinusDays(run.today, run.days_back),
                                      run.today)
                 before == DateRange(YearBack(current.start),
                                     YearBack(current.end))
             IN /\ Len(calls) = 10
                /\ \A m \in Metrics :
                      /\ Cardinality(CallsOf(m, current)) = 1
                      /\ Cardinality(CallsOf(m, before)) = 1
                /\ \A i \in DOMAIN requests : requests[i].client = 1
                /\ \A c \in constructed : c.session = 1
                /\ rendered.invoked
                /\ rendered.data = data
                /\ \E i \in CallsOf(<<"get_revenue_summary", "">>, current) :
                      /\ rendered.data.top3_locations = calls[i].top3
                      /\ rendered.data.revenue_current = calls[i].value

C7_Witness ==
    /\ pc = "done"
    /\ run.days_back = 1
    /\ calls[1].top3 # calls[2].top3
    /\ Len(requests) = 12

\* C8: an export body whose first line lacks the header fragment, the empty
\* body included, makes download_report fail with the "Unexpected response
\* format" error carrying the first 500 characters, before any CSV parsing
\* and before the sum.
C8_ProtocolError ==
    (conv.done /\ (body = <<>> \/ ~HasFragment(body[1])))
        => /\ conv.error.type = "ValueError"
           /\ conv.error.msg = "Unexpected response format from Canvas"
           /\ conv.error.excerpt = Min(TextLen(body), 500)
           /\ ~conv.parsed
           /\ ~conv.summed

\* the table the parser reads, and what the claims call its rows
TheTable == page[Len(page)]

ThreeCell == {i \in DOMAIN TheTable : Len(TheTable[i]) = 3}

NamedTotal(row) == Lower(Strip(row[2])) = <<"t", "o", "t", "a", "l">>

TotalRows == {i \in ThreeCell : NamedTotal(TheTable[i])}

RankedRows == ThreeCell \ TotalRows

RevenueOf(row) == NumberOf(CleanRevenue(Strip(row[3])))

\* every 3-cell row is a RevenueRow: a currency amount, and a whole-number
\* rank unless it is a Total row
WellFormed ==
    /\ page # <<>>
    /\ \A i \in ThreeCell :
          /\ IsNumber(CleanRevenue(Strip(TheTable[i][3])))
          /\ i \in RankedRows => IsNumber(Strip(TheTable[i][1]))

InTop3(i) ==
    \E k \in DOMAIN parsed.df_top3 :
        parsed.df_top3[k] = [Rank |-> NumberOf(Strip(TheTable[i][1])),
                             Location |-> Strip(TheTable[i][2]),
                             Revenue |-> RevenueOf(TheTable[i])]

\* C9: for a table with a Total row the parser returns that row's revenue
\* as the total, keeps every Total row out of the ranked set, and returns as
\* top-3 the at most three ranked rows of highest revenue, in descending
\* order; a ranked row left out has no more revenue than any row kept.
C9_TopThree ==
    (parsed.done /\ WellFormed /\ TotalRows # {})
        => /\ parsed.error.type = "none"
           /\ parsed.df_total.Revenue = RevenueOf(TheTable[SetMax(TotalRows)])
           /\ Len(parsed.df_all) = Cardinality(RankedRows)
           /\ \A k \in DOMAIN parsed.df_all :
                 Lower(parsed.df_all[k].Location) # <<"t", "o", "t", "a", "l">>
           /\ Len(parsed.df_top3) = Min(3, Cardinality(RankedRows))
           /\ \A k \in DOMAIN parsed.df_top3 :
                 \E i \in RankedRows :
                     /\ parsed.df_top3[k].Location = Strip(TheTable[i][2])
                     /\ parsed.df_top3[k].Revenue = RevenueOf(TheTable[i])
           /\ \A k, l \in DOMAIN parsed.df_top3 :
                 /\ k < l => parsed.df_top3[k].Revenue >= parsed.df_top3[l].Revenue
                 /\ k # l => parsed.df_top3[k].Location # parsed.df_top3[l].Location
           /\ \A i \in RankedRows :
                 ~InTop3(i) =>
                     \A k \in DOMAIN parsed.df_top3 :
                         RevenueOf(TheTable[i]) <= parsed.df_top3[k].Revenue

C9_Witness ==
    /\ parsed.done
    /\ WellFormed
    /\ Cardinality(TotalRows) = 1
    /\ Cardinality(RankedRows) = 4
    /\ Len(parsed.df_top3) = 3
    /\ parsed.df_all[4].Revenue > parsed.df_all[3].Revenue
    /\ parsed.df_top3[1].Revenue > parsed.df_top3[2].Revenue

\* C10 as claimed: the parser returns a total only for a table with exactly
\* one Total row, and a table without one fails with "Could not find total
\* row".
C10_ExactlyOneTotal ==
    (parsed.done /\ WellFormed)
        => /\ parsed.error.type = "none" => Cardinality(TotalRows) = 1
           /\ TotalRows = {} =>
                 /\ parsed.error.type = "ValueError"
                 /\ parsed.error.msg = "Could not find total row in revenue table."

\* C10 as amended: the parser needs at least one 3-cell row named "Total" in
\* any letter case; the last such row is the grand total; a table without
\* one fails with "Could not find total row" and returns no total.
C10_AtLeastOneTotal ==
    (parsed.done /\ WellFormed)
        => /\ TotalRows # {} =>
                 /\ parsed.error.type = "none"
                 /\ parsed.df_total.Location = Strip(TheTable[SetMax(TotalRows)][2])
                 /\ parsed.df_total.Revenue = RevenueOf(TheTable[SetMax(TotalRows)])
           /\ TotalRows = {} =>
                 /\ parsed.error.type = "ValueError"
                 /\ parsed.error.msg = "Could not find total row in revenue table."
                 /\ parsed.df_total = NoTotal
                 /\ parsed.df_top3 = <<>>

C10_Witness ==
    /\ parsed.done
    /\ WellFormed
    /\ TotalRows = {}
    /\ Cardinality(RankedRows) = 2
    /\ Cardinality(DOMAIN TheTable \ ThreeCell) = 1
    /\ parsed.error.msg = "Could not find total row in revenue table."

\* C11: a listing that holds no record counts as 0 and raises nothing.
\* Whenever the request succeeded, the status name is one of the
\* enumeration and the stripped body is empty, or is the listing's header
\* (with the ID and Franchisee columns) and no data row,
\* count_jobs_by_status returns 0 without an exception.
C11_ZeroRecords ==
    (/\ output.done
     /\ input.status_name \in DOMAIN STATUS_FILTERS
     /\ ~input.o.transport /\ Success(input.o.status)
     /\ \/ input.listing.kind = "empty"
        \/ input.listing.kind = "rows" /\ input.listing.ids = <<>>)
    => output.error = NoError /\ output.count = 0

C11_Witness ==
    /\ output.done
    /\ input.status_name = "Order Shipped"
    /\ ~input.o.transport /\ Success(input.o.status)
    /\ input.listing = Listing("rows", <<>>)
    /\ output.error = NoError
    /\ output.count = 0

\* the measurement time stamp the claims speak of: the last comma-separated
\* entry of the history field, unparsable when the field is blank
MeasuredOf(row) ==
    IF row.measured.blank THEN Stamp(FALSE, 0)
    ELSE row.measured.entries[Len(row.measured.entries)]

HasBoth(row) == row.shipped.ok /\ MeasuredOf(row).ok

\* C12: rows with an unparsable time stamp are dropped.  For every CSV
\* listing measurement_to_shipped raises nothing, whatever the rows hold
\* (a blank measurement field included), and when some row has both time
\* stamps the average is the mean of shipped - last measurement entry over
\* exactly those rows.
C12_DropUnparsed ==
    (output.done /\ input.listing.kind = "rows")
    => LET kept == SelectSeq(input.listing.rows, HasBoth)
           diffs == [i \in DOMAIN kept |-> kept[i].shipped.t - MeasuredOf(kept[i]).t]
       IN /\ output.error = NoError
          /\ kept # <<>> => output.avg * Len(kept) = SumSeq(diffs) * 60

NoRowHasBoth(listing) ==
    \A i \in DOMAIN listing.rows : ~HasBoth(listing.rows[i])

NoBlankMeasurement(listing) ==
    \A i \in DOMAIN listing.rows : ~listing.rows[i].measured.blank

C14_Truncated ==
    (/\ output.done
     /\ output.error = NoError
     /\ input.listing.kind = "rows"
     /\ ~NoRowHasBoth(input.listing)
     /\ output.avg >= 0)
    => /\ output.human.text = "days, hours"
       /\ output.human.days >= 0
       /\ output.human.days * 1440 <= output.avg
       /\ output.avg < (output.human.days + 1) * 1440
       /\ output.human.hours \in 0..23
       /\ (output.human.days * 24 + output.human.hours) * 60 <= output.avg
       /\ output.avg < (output.human.days * 24 + output.human.hours + 1) * 60

\* an average of 1 day 15.5 hours reads "1 days, 15 hours"
C14_Witness ==
    /\ output.done
    /\ output.error = NoError
    /\ output.avg = (1 * 24 + 15) * 60 + 30
    /\ output.human = Human("days, hours", 1, 15)

\* C15: year-over-year formatting.  On every line of the report, for a
\* lastYear other than 0 the percent shown is |current - lastYear| / lastYear
\* * 100 to the nearest tenth with an up arrow when the change is >= 0 and a
\* down arrow otherwise (110 against 100 reads up, 10.0%); for a lastYear of
\* 0 the line reads up, 0.0%, never inf or nan.
C15_YoyFallback ==
    output.done
    => LET delta == input.current - input.last_year
           abs(x) == IF x < 0 THEN -x ELSE x
       IN /\ output.percent_display.text = "number"
          /\ input.last_year # 0
             => /\ output.arrow = IF delta >= 0 THEN "up" ELSE "down"
                /\ 2 * abs(output.percent_display.tenths * input.last_year
                           - abs(delta) * 1000) <= input.last_year
          /\ (input.current = 110 /\ input.last_year = 100)
             => output.arrow = "up" /\ output.percent_display.tenths = 100
          /\ input.last_year = 0
             => output.arrow = "up" /\ output.percent_display.tenths = 0

\* C16: order-type classification is total.  Whenever a listing with the ID
\* column was fetched, classification raised nothing and gave every row its
\* type from the id alone: Claim for a string starting with "C", Reorder for
\* a string starting with "R", New for every other id (leading digit, empty
\* string, another prefix such as a lower-case "c", or a value that is not a
\* string).
C16_Classification ==
    (/\ output.done
     /\ input.status_name \in DOMAIN STATUS_FILTERS
     /\ ~input.o.transport /\ Success(input.o.status)
     /\ input.listing.kind = "rows")
    => /\ output.error = NoError
       /\ Len(output.df) = Len(input.listing.ids)
       /\ \A i \in DOMAIN output.df :
             LET id == input.listing.ids[i]
                 starts(c) == id.isStr /\ Len(id.chars) > 0 /\ id.chars[1] = c
             IN /\ output.df[i].ID = id
                /\ output.df[i].Order_Type =
                       IF starts("C") THEN "Claim"
                       ELSE IF starts("R") THEN "Reorder" ELSE "New"

C16_Witness ==
    /\ output.done
    /\ output.error = NoError
    /\ input.listing.kind = "rows"
    /\ \E i, j \in DOMAIN output.df :
          /\ output.df[i].ID = OrderId(TRUE, <<"R", "4">>)
          /\ output.df[i].Order_Type = "Reorder"
          /\ ~output.df[j].ID.isStr
          /\ output.df[j].Order_Type = "New"

LeapDay(dt) == dt.m = 2 /\ dt.d = 29

NoLeapDay(r) == ~LeapDay(r.start) /\ ~LeapDay(r.end)

\* C17 as stated: for a range with no leap-day endpoint, the second of two
\* successive shifts returns the original range.
C17_TwiceIsOriginal ==
    (NoLeapDay(input.range) /\ Len(output.results) >= 2)
    => output.results[2] = input.range

\* C17, amended: for a range with no leap-day endpoint two successive
\* shifts raise nothing, and the second returns the range two years before
\* the original one, month and day of both endpoints unchanged; it is never
\* the original range.
C17_TwiceIsTwoYearsBack ==
    /\ (NoLeapDay(input.range) /\ output.done) => output.error = NoError
    /\ (NoLeapDay(input.range) /\ Len(output.results) >= 2)
       => /\ output.results[2] =
                 DateRange(Date(input.range.start.y - 2, input.range.start.m,
                                input.range.start.d),
                           Date(input.range.end.y - 2, input.range.end.m,
                                input.range.end.d))
          /\ output.results[2] # input.range

C17_Witness ==
    /\ input.range = DateRange(Date(2024, 3, 1), Date(2024, 3, 30))
    /\ output.error = NoError
    /\ Len(output.results) >= 2
    /\ output.results[2] = DateRange(Date(2022, 3, 1), Date(2022, 3, 30))

\* C18: the shift has no error conditions.  For every range, a Feb 29
\* endpoint included, the call raises nothing, leaves the receiver as it was
\* and returns a range whose endpoints have the year decremented by one;
\* an endpoint that is not Feb 29 keeps its month and day.
C18_NoErrorConditions ==
    output.done
    => /\ output.error = NoError
       /\ output.self = input.range
       /\ Len(output.results) >= 1
       /\ output.results[1].start.y = input.range.start.y - 1
       /\ output.results[1].end.y = input.range.end.y - 1
       /\ ~LeapDay(input.range.start)
          => /\ output.results[1].start.m = input.range.start.m
             /\ output.results[1].start.d = input.range.start.d
       /\ ~LeapDay(input.range.end)
          => /\ output.results[1].end.m = input.range.end.m
             /\ output.results[1].end.d = input.range.end.d

\* the requests of a complete run, in order: method, endpoint, status
\* filter (0 when the endpoint has none) and the window of the call
RequestOrder(r) ==
    << <<"GET", "location_sales_rankings", 0, r.current_range>>,
       <<"GET", "location_sales_rankings", 0, r.last_year_range>>,
       <<"GET", "listjobs_date_shipped", 0, r.current_range>>,
       <<"GET", "listjobs_date_shipped", 0, r.last_year_range>>,
       <<"POST", "conversion_form", 0, r.current_range>>,
       <<"GET", "conversion_export", 0, r.current_range>>,
       <<"POST", "conversion_form", 0, r.last_year_range>>,
       <<"GET", "conversion_export", 0, r.last_year_range>>,
       <<"GET", "listjobs_status", 6, r.current_range>>,
       <<"GET", "listjobs_status", 6, r.last_year_range>>,
       <<"GET", "listjobs_status", 5, r.current_range>>,
       <<"GET", "listjobs_status", 5, r.last_year_range>> >>

\* C19: one fixed order of requests.  At every point of a run the requests
\* issued so far are the first ones of the twelve-request sequence (revenue,
\* cycle time, conversion POST then GET, shipped count, submitted count,
\* each for the current and then the prior-year window); each was issued by
\* one session call after every earlier one had returned without raising; a
\* run that completed issued all twelve, a failed run a prefix of them.
C19_RequestOrder ==
    /\ Len(requests) <= 12
    /\ sessionCalls = Len(requests)
    /\ \A i \in DOMAIN requests :
          /\ <<requests[i].method, requests[i].endpoint, requests[i].filter,
               requests[i].window>> = RequestOrder(run)[i]
          /\ requests[i].attempts = 1
          /\ i < Len(requests) => ~requests[i].raised
    /\ pc \in {"render", "done"} => Len(requests) = 12
    /\ (pc = "done") => ~requests[12].raised

C19_Witness ==
    /\ pc = "done"
    /\ pdf
    /\ Len(requests) = 12
    /\ requests[5].method = "POST" /\ requests[6].method = "GET"
    /\ requests[9].filter = 6 /\ requests[12].filter = 5
    /\ requests[11].window = run.current_range
    /\ requests[12].window = run.last_year_range
    /\ run.current_range # run.last_year_range

\* C20: the status name is checked first.  A call with a name outside
\* STATUS_FILTERS fails with the unknown-status ValueError having built no
\* URL and issued no request; a call with a name of the enumeration issues
\* exactly one GET, for the URL built with the id of that name (6 for
\* "Order Shipped", 5 for "Submitted to Manufacturing Partner") and the
\* date range of the call, whatever the response turns out to be.
C20_UnknownStatus ==
    output.done
    => IF input.status_name \in
              {"Submitted to Manufacturing Partner", "Order Shipped"}
       THEN /\ Len(output.gets) = 1
            /\ output.urls = output.gets
            /\ output.gets[1].status =
                   (IF input.status_name = "Order Shipped" THEN 6 ELSE 5)
            /\ output.gets[1].window = input.date_range
            /\ output.error.msg # "Unknown status"
       ELSE /\ output.error = Exc("ValueError", "Unknown status")
            /\ output.urls = <<>>
            /\ output.gets = <<>>
            /\ output.count = 0

C20_Witness ==
    /\ output.done
    /\ input.status_name = "Delivered"
    /\ ~input.o.transport /\ Success(input.o.status)
    /\ input.listing.kind = "rows" /\ input.listing.ids # <<>>
    /\ output.error.type = "ValueError"
    /\ output.gets = <<>>

\* C21: the duration-comparison line.  The number of days shown is the
\* difference current - lastYear truncated toward zero (its absolute value
\* d satisfies d days <= |difference| < d + 1 days), the arrow is down
\* exactly when the truncated difference is <= -1, that is when the current
\* average is smaller by a whole day or more; when it is smaller by less
\* than one day the line shows an up arrow with "by 0 days".
C21_TruncatedDifference ==
    output.done
    => LET diff == input.current_days - input.last_year_days
           size == IF diff < 0 THEN -diff ELSE diff
       IN /\ output.diff_abs >= 0
          /\ output.diff_abs * 1440 <= size
          /\ size < (output.diff_abs + 1) * 1440
          /\ (output.arrow = "down") <=> (diff <= -1440)
          /\ (output.arrow = "up") <=> (diff > -1440)
          /\ (diff < 0 /\ diff > -1440)
             => output.arrow = "up" /\ output.diff_abs = 0

\* 1 day 0 hours against 1 day 1 hour last year reads up, by 0 days
C21_Witness ==
    /\ output.done
    /\ input.current_days = 1440
    /\ input.last_year_days = 1500
    /\ output.arrow = "up"
    /\ output.diff_abs = 0
    /\ output.cur = Human("days, hours", 1, 0)
    /\ output.ly = Human("days, hours", 1, 1)
====
